---- MODULE Spec2Model ----
(***************************************************************************)
(* Event-loop unit-test samples: LeakyTests, LessLeakyTests and            *)
(* TestIntegratedController, run against one shared QCoreApplication.      *)
(*                                                                         *)
(* A test class is run as a sequence of its test methods.  Each test       *)
(* registers single-shot timers, enters exec_() and checks the exit code.  *)
(* Time is counted in milliseconds and passes only while the loop waits    *)
(* inside exec_(): the code between two exec_() calls processes no events  *)
(* and takes no modelled time.                                             *)
(***************************************************************************)
EXTENDS Integers, Sequences, FiniteSets, TLC

VARIABLES
    suite,      \* the test class being run
    pc,         \* position of the test thread: "idle", "ready", "exec", "cleanup"
    testNo,     \* number of tests started so far; the running test's number
    cur,        \* name of the running test method
    qapp,       \* TRUE once the QCoreApplication instance exists
    testQobj,   \* LessLeakyTests.test_qobj of the running test (0: none)
    timers,     \* the application's active timers, in firing order
    loop,       \* the event loop: [inExec, exitReq, returnCode]
    runState,   \* "Idle", "Running", "Completed", "TimedOut"
    runElapsed, \* ms spent in the current exec_()
    runInfo,    \* what stopped the current run: [ownFirst, stopBy]
    results,    \* one record per exec_() that has returned
    firedLog,   \* one record per timer callback that has been invoked
    posted,     \* the loop thread's queue of posted (queued) notifications
    worker,     \* the controller's Worker thread: [state, step, slept]
    observed,   \* calls recorded by the patched on_worker_result
    appCalls,   \* calls of the QCoreApplication constructor so far
    cleanups,   \* cleanups registered with addCleanup by the running test
    releaseCalls, \* calls of release_qt_resources so far
    noLoopLog   \* one record per test that ended without calling exec_()

vars == <<suite, pc, testNo, cur, qapp, testQobj, timers, loop, runState,
          runElapsed, runInfo, results, firedLog, posted, worker, observed,
          appCalls, cleanups, releaseCalls, noLoopLog>>

\* Number of test methods run in sequence on the shared application.
MaxTests == 4

\* Delays of the sources, in ms.
TaskDelay == 0
WorkDelay == 3000
GuardDelay == 5000
BetterGuardDelay == 3000
WorkerSleep == 100
WorkerResults == 20

Suites == {"Leaky", "LessLeaky", "Worker"}

NoRun == [ownFirst |-> "none", stopBy |-> 0]
NoWorker == [state |-> "none", step |-> 0, slept |-> 0]
LoopIdle == [inExec |-> FALSE, exitReq |-> FALSE, returnCode |-> 0]

----------------------------------------------------------------------------
(* Timers *)

Remaining(t) == t.delay - t.age
Due(t) == t.age >= t.delay

\* A timer enters the list behind every timer that expires no later than it.
TimerInsert(ts, t) ==
    LET k == Cardinality({i \in 1..Len(ts) : Remaining(ts[i]) <= Remaining(t)})
    IN SubSeq(ts, 1, k) \o <<t>> \o SubSeq(ts, k + 1, Len(ts))

NewTimer(test, kind, ms, parent, single) ==
    [test |-> test, kind |-> kind, delay |-> ms, age |-> 0,
     parent |-> parent, singleShot |-> single]

\* QTimer.singleShot(ms, func): a single-shot timer nobody owns.
StaticSingleShot(ts, test, kind, ms) ==
    TimerInsert(ts, NewTimer(test, kind, ms, 0, TRUE))

\* Variant: setSingleShot(True) left out.
SingleShot_Repeating(ts, test, kind, ms, parent) ==
    TimerInsert(ts, NewTimer(test, kind, ms, parent, FALSE))

\* LessLeakyTests._single_shot(timeout_ms, func): a timer owned by test_qobj.
SingleShot(ts, test, kind, ms, parent) ==
    TimerInsert(ts, NewTimer(test, kind, ms, parent, TRUE))

\* Registration used by a callback of the given class.
Register(s, ts, test, kind, ms, parent) ==
    IF s = "Leaky" THEN StaticSingleShot(ts, test, kind, ms)
    ELSE SingleShot(ts, test, kind, ms, parent)

\* Variant: no guard is registered.
LeakyFailIfTimeout_NoGuard(ts, test) == ts

\* LeakyTests._fail_if_timeout
LeakyFailIfTimeout(ts, test) == StaticSingleShot(ts, test, "guard", GuardDelay)

\* LessLeakyTests._fail_if_timeout
LessLeakyFailIfTimeout(ts, test, parent) ==
    SingleShot(ts, test, "guard", GuardDelay, parent)

\* QObject destruction: the children of a deleted object go with it.
DeleteChildren(ts, obj) == SelectSeq(ts, LAMBDA t : t.parent # obj)

AgeAll(ts, d) == [i \in 1..Len(ts) |-> [ts[i] EXCEPT !.age = @ + d]]

----------------------------------------------------------------------------
(* The loop *)

\* Variant: the exit code is dropped.
Exit_Zero(l, code) ==
    IF l.inExec THEN [l EXCEPT !.exitReq = TRUE, !.returnCode = 0] ELSE l

\* QCoreApplication.exit(code); quit() is exit(0).  Outside exec_() there is
\* no loop to stop and the request is lost.
Exit(l, code) ==
    IF l.inExec THEN [l EXCEPT !.exitReq = TRUE, !.returnCode = code] ELSE l

Quit(l) == Exit(l, 0)

\* Variant: exec_() returns without waiting for a stop request.
CanReturn_Always(l) == l.inExec

\* exec_() returns once a stop has been requested.
CanReturn(l) == l.inExec /\ l.exitReq

\* The timer list after the head timer t has been activated: a single-shot
\* timer is gone, any other one is restarted.
Activated(ts, t) ==
    IF t.singleShot THEN Tail(ts)
    ELSE TimerInsert(Tail(ts), [t EXCEPT !.age = 0])

\* do_task: the assertion on self.qapp, then the 3000ms stop of the test.
DoTask(s, ts, t, app) ==
    IF app THEN Register(s, ts, t.test, "quit", WorkDelay, t.parent) ELSE ts

\* The callback connected to timer t, applied to the timer list.
CallbackTimers(s, ts, t, app) ==
    IF t.kind = "task" THEN DoTask(s, ts, t, app) ELSE ts

\* The callback connected to timer t, applied to the loop.
CallbackLoop(l, t) ==
    CASE t.kind = "quit" -> Quit(l)
      [] t.kind = "guard" -> Exit(l, -1)
      [] OTHER -> l

FiredRecord(t, run, inExec) ==
    [test |-> t.test, kind |-> t.kind, delay |-> t.delay, age |-> t.age,
     run |-> run, inExec |-> inExec]

\* The first of the run's own stop callbacks, and the first stop request.
NoteStop(ri, t, run) ==
    IF t.kind \in {"quit", "guard"}
    THEN [ownFirst |-> IF ri.ownFirst = "none" /\ t.test = run
                       THEN t.kind ELSE ri.ownFirst,
          stopBy |-> IF ri.stopBy = 0 THEN t.test ELSE ri.stopBy]
    ELSE ri

----------------------------------------------------------------------------
(* The test classes *)

Tests(s) ==
    CASE s = "Leaky" -> {"test_fail_if_timeout", "test_one", "test_two"}
      [] s = "LessLeaky" -> {"test_one", "test_two"}
      [] OTHER -> {"test_controller_and_worker_bad",
                   "test_controller_and_worker_better",
                   "test_controller_and_worker_good"}

\* What each test asserts once exec_() has returned.
Passed(s, name, code, seen) ==
    CASE name = "test_controller_and_worker_good" -> seen = WorkerResults
      [] s = "Worker" -> code = 0 /\ seen = WorkerResults
      [] name = "test_fail_if_timeout" -> code = -1
      [] OTHER -> code = 0

\* QCoreApplication.instance() or QCoreApplication(): the constructor is
\* called only when there is no instance yet.
InstanceOrNew(app, calls) == IF app THEN calls ELSE calls + 1

\* Variant: the cleanup is not registered.
AddCleanup_None(cs, f) == cs

\* TestCase.addCleanup(f)
AddCleanup(cs, f) == Append(cs, f)

\* Tests started so far, with or without a loop run.
Started == testNo + Len(noLoopLog)

Init ==
    /\ suite \in Suites
    /\ pc = "idle"
    /\ testNo = 0
    /\ cur = "none"
    /\ qapp = FALSE
    /\ testQobj = 0
    /\ timers = <<>>
    /\ loop = LoopIdle
    /\ runState = "Idle"
    /\ runElapsed = 0
    /\ runInfo = NoRun
    /\ results = <<>>
    /\ firedLog = <<>>
    /\ posted = <<>>
    /\ worker = NoWorker
    /\ observed = 0
    /\ appCalls = 0
    /\ cleanups = <<>>
    /\ releaseCalls = 0
    /\ noLoopLog = <<>>

\* Entry into exec_(): the stop request of an earlier run is forgotten.
EnterExec ==
    /\ loop' = [inExec |-> TRUE, exitReq |-> FALSE, returnCode |-> 0]
    /\ pc' = "exec"
    /\ runState' = "Running"
    /\ runElapsed' = 0
    /\ runInfo' = NoRun

\* LeakyTests.setUp
LeakySetUp ==
    /\ suite = "Leaky" /\ pc = "idle" /\ testNo < MaxTests
    /\ \E name \in Tests(suite) : cur' = name
    /\ testNo' = testNo + 1
    /\ qapp' = TRUE
    /\ pc' = "ready"
    /\ runState' = "Idle"
    /\ appCalls' = InstanceOrNew(qapp, appCalls)
    /\ UNCHANGED <<suite, testQobj, timers, loop, runElapsed, runInfo, results,
                   firedLog, posted, worker, observed, cleanups,
                   releaseCalls, noLoopLog>>

\* LessLeakyTests.setUp
LessLeakySetUp ==
    /\ suite = "LessLeaky" /\ pc = "idle" /\ testNo < MaxTests
    /\ \E name \in Tests(suite) : cur' = name
    /\ testNo' = testNo + 1
    /\ qapp' = TRUE
    /\ testQobj' = testNo + 1
    /\ pc' = "ready"
    /\ runState' = "Idle"
    /\ appCalls' = InstanceOrNew(qapp, appCalls)
    /\ cleanups' = AddCleanup(cleanups, "release_qt_resources")
    /\ UNCHANGED <<suite, timers, loop, runElapsed, runInfo, results,
                   firedLog, posted, worker, observed, releaseCalls,
                   noLoopLog>>

\* LeakyTests.test_fail_if_timeout, up to its exec_() call
LeakyTestFailIfTimeout ==
    /\ suite = "Leaky" /\ pc = "ready" /\ cur = "test_fail_if_timeout"
    /\ timers' = LeakyFailIfTimeout(timers, testNo)
    /\ EnterExec
    /\ UNCHANGED <<suite, testNo, cur, qapp, testQobj, results, firedLog,
                   posted, worker, observed, appCalls, cleanups,
                   releaseCalls, noLoopLog>>

\* The body shared by LeakyTests.test_one and test_two, up to exec_()
LeakyTaskTest(name) ==
    /\ suite = "Leaky" /\ pc = "ready" /\ cur = name
    /\ timers' = LeakyFailIfTimeout(
                    StaticSingleShot(timers, testNo, "task", TaskDelay), testNo)
    /\ EnterExec
    /\ UNCHANGED <<suite, testNo, cur, qapp, testQobj, results, firedLog,
                   posted, worker, observed, appCalls, cleanups,
                   releaseCalls, noLoopLog>>

LeakyTestOne == LeakyTaskTest("test_one")

LeakyTestTwo == LeakyTaskTest("test_two")

\* The body shared by LessLeakyTests.test_one and test_two, up to exec_()
LessLeakyTaskTest(name) ==
    /\ suite = "LessLeaky" /\ pc = "ready" /\ cur = name
    /\ timers' = LessLeakyFailIfTimeout(
                    SingleShot(timers, testNo, "task", TaskDelay, testQobj),
                    testNo, testQobj)
    /\ EnterExec
    /\ UNCHANGED <<suite, testNo, cur, qapp, testQobj, results, firedLog,
                   posted, worker, observed, appCalls, cleanups,
                   releaseCalls, noLoopLog>>

LessLeakyTestOne == LessLeakyTaskTest("test_one")

LessLeakyTestTwo == LessLeakyTaskTest("test_two")

----------------------------------------------------------------------------
(* Inside exec_() *)

\* The loop activates the first timer of the list once it has expired.  A
\* timer that expired together with the one that requested the stop may
\* still be activated before exec_() returns.
DispatchTimer ==
    /\ pc = "exec" /\ timers # <<>> /\ Due(Head(timers))
    /\ LET t == Head(timers)
       IN /\ timers' = CallbackTimers(suite, Activated(timers, t), t, qapp)
          /\ loop' = CallbackLoop(loop, t)
          /\ firedLog' = Append(firedLog, FiredRecord(t, testNo, TRUE))
          /\ runInfo' = NoteStop(runInfo, t, testNo)
    /\ UNCHANGED <<suite, pc, testNo, cur, qapp, testQobj, runState,
                   runElapsed, results, posted, worker, observed, appCalls,
                   cleanups, releaseCalls, noLoopLog>>

WorkerReady ==
    worker.state = "running"
    /\ (worker.slept >= WorkerSleep \/ worker.step >= WorkerResults)

\* What the loop and the worker are waiting for, in ms.
Waits ==
    (IF timers # <<>> THEN {Remaining(Head(timers))} ELSE {})
    \cup (IF worker.state = "running" THEN {WorkerSleep - worker.slept} ELSE {})

\* The loop has nothing to dispatch and waits for the next expiry.
Tick ==
    /\ pc = "exec" /\ ~loop.exitReq /\ posted = <<>>
    /\ (IF timers = <<>> THEN TRUE ELSE ~Due(Head(timers)))
    /\ ~WorkerReady
    /\ Waits # {}
    /\ LET d == CHOOSE w \in Waits : \A v \in Waits : w <= v
       IN /\ timers' = AgeAll(timers, d)
          /\ runElapsed' = runElapsed + d
          /\ worker' = IF worker.state = "running"
                       THEN [worker EXCEPT !.slept = @ + d] ELSE worker
    /\ UNCHANGED <<suite, pc, testNo, cur, qapp, testQobj, loop, runState,
                   runInfo, results, firedLog, posted, observed, appCalls,
                   cleanups, releaseCalls, noLoopLog>>

ResultRecord ==
    [test |-> testNo, name |-> cur, code |-> loop.returnCode,
     elapsed |-> runElapsed, ownFirst |-> runInfo.ownFirst,
     stopBy |-> runInfo.stopBy, observed |-> observed,
     passed |-> Passed(suite, cur, loop.returnCode, observed)]

\* exec_() returns its exit code and the test makes its assertions.
\* LeakyTests has no teardown; LessLeakyTests goes on to the cleanup that
\* its setUp registered, whatever the outcome of the assertions; the
\* controller of the worker test is a local of the test function and its
\* child timer goes with it.
ExecReturn ==
    /\ pc = "exec" /\ CanReturn(loop)
    /\ results' = Append(results, ResultRecord)
    /\ loop' = LoopIdle
    /\ runState' = IF loop.returnCode = 0 THEN "Completed" ELSE "TimedOut"
    /\ pc' = IF cleanups # <<>> THEN "cleanup" ELSE "idle"
    /\ timers' = IF suite = "Worker" THEN DeleteChildren(timers, testNo)
                 ELSE timers
    /\ posted' = IF suite = "Worker" THEN <<>> ELSE posted
    /\ worker' = IF suite = "Worker" THEN NoWorker ELSE worker
    /\ UNCHANGED <<suite, testNo, cur, qapp, testQobj, runElapsed, runInfo,
                   firedLog, observed, appCalls, cleanups, releaseCalls,
                   noLoopLog>>

\* processEvents() outside exec_(): the timers that have expired by now are
\* activated, and a stop request made by one of them finds no loop.
RECURSIVE ProcessEvents(_, _, _, _, _, _)
ProcessEvents(s, ts, log, app, run, n) ==
    IF n = 0 \/ ts = <<>> \/ ~Due(Head(ts))
    THEN [timers |-> ts, log |-> log]
    ELSE LET t == Head(ts)
         IN ProcessEvents(s, CallbackTimers(s, Activated(ts, t), t, app),
                          Append(log, FiredRecord(t, run, FALSE)), app, run,
                          n - 1)

NumDue(ts) == Cardinality({i \in 1..Len(ts) : Due(ts[i])})

\* Variant: the timers are not children of test_qobj.
ReleaseTimers_KeepChildren(ts, obj) == ts

\* deleteLater() followed by sendPostedEvents(DeferredDelete): test_qobj is
\* destroyed, and its timers with it.
ReleaseTimers(ts, obj) == DeleteChildren(ts, obj)

\* LessLeakyTests.release_qt_resources, the cleanup registered by setUp
ReleaseQtResources ==
    /\ suite = "LessLeaky" /\ pc = "cleanup"
    /\ cleanups # <<>> /\ Head(cleanups) = "release_qt_resources"
    /\ cleanups' = Tail(cleanups)
    /\ releaseCalls' = releaseCalls + 1
    /\ LET kept == ReleaseTimers(timers, testQobj)
           after == ProcessEvents(suite, kept, firedLog, qapp, testNo,
                                  NumDue(kept))
       IN /\ timers' = after.timers
          /\ firedLog' = after.log
    /\ testQobj' = 0
    /\ pc' = "idle"
    /\ UNCHANGED <<suite, testNo, cur, qapp, loop, runState, runElapsed,
                   runInfo, results, posted, worker, observed, appCalls,
                   noLoopLog>>

----------------------------------------------------------------------------
(* Controller and Worker *)

Event(kind, test) == [kind |-> kind, test |-> test]

\* The default connection type: the slot is queued when the emitting thread
\* is not the thread the receiver lives in, and called directly otherwise.
AutoConnection(emitter, receiver) ==
    IF emitter = receiver THEN "Direct" ELSE "Queued"

\* Controller.start: startWorkers is connected to worker.start with
\* Qt.QueuedConnection, so emitting it only posts the call.
StartWorkers(q, test) == Append(q, Event("start", test))

\* A destroyed object takes the notifications posted to it along.
DropEvents(q, test) == SelectSeq(q, LAMBDA e : e.test # test)

\* QThread.isRunning
IsRunning(w) == w.state = "running"

\* Variant: on_worker_result called by the worker thread itself.
ResultReady_Direct(q, seen, test) == [posted |-> q, observed |-> seen + 1]

\* resultReady.emit in Worker.run: the connection to on_worker_result has
\* the default type, the emitter is the worker thread and the controller
\* lives in the loop thread.
ResultReady(q, seen, test) ==
    IF AutoConnection("worker", "loop") = "Queued"
    THEN [posted |-> Append(q, Event("result", test)), observed |-> seen]
    ELSE [posted |-> q, observed |-> seen + 1]

\* Variant: the loop of Worker.run ends one iteration early.
LoopContinues_Short(w) == w.step < WorkerResults - 1

\* for _ in range(0, 20)
LoopContinues(w) == w.step < WorkerResults

\* Variant: setInterval(100).
BetterTimeoutTimer_Short(ts, test) ==
    TimerInsert(ts, NewTimer(test, "guard", WorkerSleep, test, TRUE))

\* timeout_timer of test_controller_and_worker_better, a child of the
\* controller.
BetterTimeoutTimer(ts, test) ==
    TimerInsert(ts, NewTimer(test, "guard", BetterGuardDelay, test, TRUE))

\* Variant: quit() called by the worker thread.
GoodFinishedToQuit_Direct(l, q, test) == [loop |-> Quit(l), posted |-> q]

\* test_controller_and_worker_good: worker.finished is connected to
\* QCoreApplication.quit with the default type; finished is emitted by the
\* worker thread and the receiver of the callable lives in the loop thread.
GoodFinishedToQuit(l, q, test) ==
    IF AutoConnection("worker", "loop") = "Queued"
    THEN [loop |-> l, posted |-> Append(q, Event("quit", test))]
    ELSE [loop |-> Quit(l), posted |-> q]

\* A notification delivered over a queued connection is posted to the loop
\* thread's queue; over a direct connection the slot runs in the emitter.

\* Variant: the default connection, quit() called by the worker thread.
FinishedToQuit_Direct(l, q, test) == [loop |-> Quit(l), posted |-> q]

\* test_controller_and_worker_better: worker.finished is connected to
\* QCoreApplication.quit with Qt.QueuedConnection.
FinishedToQuit(l, q, test) ==
    [loop |-> l, posted |-> Append(q, Event("quit", test))]

\* test_controller_and_worker_better, up to its exec_() call: the controller
\* and its worker, the 3000ms timeout timer owned by the controller, the
\* patched on_worker_result and controller.start(), whose startWorkers
\* notification is queued.
BetterTest ==
    /\ suite = "Worker" /\ pc = "idle" /\ Started < MaxTests
    /\ cur' = "test_controller_and_worker_better"
    /\ appCalls' = InstanceOrNew(qapp, appCalls)
    /\ testNo' = testNo + 1
    /\ qapp' = TRUE
    /\ worker' = [state |-> "idle", step |-> 0, slept |-> 0]
    /\ timers' = BetterTimeoutTimer(timers, testNo + 1)
    /\ observed' = 0
    /\ posted' = StartWorkers(posted, testNo + 1)
    /\ EnterExec
    /\ UNCHANGED <<suite, testQobj, results, firedLog, cleanups,
                   releaseCalls, noLoopLog>>

\* test_controller_and_worker_good: QCoreApplication(sys.argv) raises
\* RuntimeError when an instance exists already, and the test ends there.
\* Otherwise the test goes on to its exec_() call, without a timeout timer.
GoodTest ==
    /\ suite = "Worker" /\ pc = "idle" /\ Started < MaxTests
    /\ cur' = "test_controller_and_worker_good"
    /\ appCalls' = appCalls + 1
    /\ IF qapp
       THEN /\ noLoopLog' = Append(noLoopLog,
                                [name |-> "test_controller_and_worker_good",
                                 error |-> "RuntimeError",
                                 running |-> FALSE, observed |-> 0])
            /\ UNCHANGED <<testNo, qapp, worker, observed, posted, loop, pc,
                           runState, runElapsed, runInfo>>
       ELSE /\ testNo' = testNo + 1
            /\ qapp' = TRUE
            /\ worker' = [state |-> "idle", step |-> 0, slept |-> 0]
            /\ observed' = 0
            /\ posted' = StartWorkers(posted, testNo + 1)
            /\ EnterExec
            /\ UNCHANGED noLoopLog
    /\ UNCHANGED <<suite, testQobj, timers, results, firedLog, cleanups,
                   releaseCalls>>

\* test_controller_and_worker_bad: no loop is run.  controller.start() only
\* posts the call of worker.start; the test then asserts isRunning(), and
\* the lines after a failed assertion are not executed.  The controller is
\* a local of the test and the notification posted to its worker goes with
\* it.
BadTest ==
    /\ suite = "Worker" /\ pc = "idle" /\ Started < MaxTests
    /\ cur' = "test_controller_and_worker_bad"
    /\ LET w == [state |-> "idle", step |-> 0, slept |-> 0]
           q == StartWorkers(posted, Started + 1)
       IN /\ posted' = DropEvents(q, Started + 1)
          /\ noLoopLog' = Append(noLoopLog,
                              [name |-> "test_controller_and_worker_bad",
                               error |-> IF IsRunning(w) THEN "none"
                                         ELSE "AssertionError",
                               running |-> IsRunning(w), observed |-> 0])
    /\ observed' = 0
    /\ UNCHANGED <<suite, pc, testNo, qapp, testQobj, timers, loop, runState,
                   runElapsed, runInfo, results, firedLog, worker,
                   appCalls, cleanups, releaseCalls>>

\* The loop delivers the first posted notification to its slot:
\* worker.start, on_worker_result or QCoreApplication.quit.
DispatchPosted ==
    /\ pc = "exec" /\ posted # <<>>
    /\ LET e == Head(posted)
       IN /\ posted' = Tail(posted)
          /\ worker' = IF e.kind = "start" /\ worker.state = "idle"
                       THEN [worker EXCEPT !.state = "running"] ELSE worker
          /\ observed' = IF e.kind = "result" THEN observed + 1 ELSE observed
          /\ loop' = IF e.kind = "quit" THEN Quit(loop) ELSE loop
          /\ runInfo' = IF e.kind = "quit"
                        THEN NoteStop(runInfo, [kind |-> "quit", test |-> e.test],
                                      testNo)
                        ELSE runInfo
    /\ UNCHANGED <<suite, pc, testNo, cur, qapp, testQobj, timers, runState,
                   runElapsed, results, firedLog, appCalls, cleanups,
                   releaseCalls, noLoopLog>>

\* Worker.run, one iteration: msleep(100) is over and resultReady is
\* emitted in the worker thread; the controller lives in the loop thread,
\* so the notification is queued.
WorkerEmit ==
    /\ worker.state = "running" /\ LoopContinues(worker)
    /\ worker.slept >= WorkerSleep
    /\ worker' = [worker EXCEPT !.step = @ + 1, !.slept = 0]
    /\ LET sent == ResultReady(posted, observed, testNo)
       IN /\ posted' = sent.posted
          /\ observed' = sent.observed
    /\ UNCHANGED <<suite, pc, testNo, cur, qapp, testQobj, timers, loop,
                   runState, runElapsed, runInfo, results, firedLog,
                   appCalls, cleanups, releaseCalls, noLoopLog>>

\* Worker.run has returned: the thread emits finished.
WorkerFinished ==
    /\ worker.state = "running" /\ ~LoopContinues(worker)
    /\ worker' = [worker EXCEPT !.state = "finished"]
    /\ LET sent == IF cur = "test_controller_and_worker_good"
                   THEN GoodFinishedToQuit(loop, posted, testNo)
                   ELSE FinishedToQuit(loop, posted, testNo)
       IN /\ loop' = sent.loop
          /\ posted' = sent.posted
    /\ UNCHANGED <<suite, pc, testNo, cur, qapp, testQobj, timers, runState,
                   runElapsed, runInfo, results, firedLog, observed, appCalls,
                   cleanups, releaseCalls, noLoopLog>>

----------------------------------------------------------------------------

Next ==
    \/ LeakySetUp
    \/ LessLeakySetUp
    \/ LeakyTestFailIfTimeout
    \/ LeakyTestOne
    \/ LeakyTestTwo
    \/ LessLeakyTestOne
    \/ LessLeakyTestTwo
    \/ BetterTest
    \/ GoodTest
    \/ BadTest
    \/ DispatchTimer
    \/ DispatchPosted
    \/ Tick
    \/ ExecReturn
    \/ ReleaseQtResources
    \/ WorkerEmit
    \/ WorkerFinished

Spec == Init /\ [][Next]_vars

\* The loop keeps dispatching, time keeps passing while it waits, and the
\* worker thread keeps being scheduled.
Fairness ==
    /\ WF_vars(DispatchTimer)
    /\ WF_vars(DispatchPosted)
    /\ WF_vars(Tick)
    /\ WF_vars(ExecReturn)
    /\ WF_vars(WorkerEmit)
    /\ WF_vars(WorkerFinished)

FairSpec == Spec /\ Fairness

----------------------------------------------------------------------------
(* Properties *)

Runs == {results[i] : i \in 1..Len(results)}
Fired == {firedLog[i] : i \in 1..Len(firedLog)}
TaskTests == {"test_one", "test_two"}

\* The timeout of the running test's guard.
RunGuard == IF suite = "Worker" THEN BetterGuardDelay ELSE GuardDelay

\* C1: the exit code of every run is 0 or -1; it is 0 when the run's own
\* success stop fired before the run's own guard, and -1 when the run's own
\* guard fired first.
C1_ExitCodeFollowsFirstStop ==
    \A r \in Runs :
        /\ r.code \in {0, -1}
        /\ r.ownFirst = "quit" => r.code = 0
        /\ r.ownFirst = "guard" => r.code = -1

C1_Witness ==
    /\ \E r \in Runs : r.name \in TaskTests /\ r.ownFirst = "quit" /\ r.code = 0
    /\ \E r \in Runs : r.ownFirst = "guard" /\ r.code = -1

\* C2: in LessLeakyTests a timer fires only inside the loop run of the test
\* that created it, and once a test has been released none of its timers
\* is left in the application.
C2_ResourceIsolation ==
    suite = "LessLeaky" =>
        /\ \A f \in Fired : f.inExec /\ f.run = f.test
        /\ \A i \in 1..Len(timers) :
              timers[i].test = testNo /\ pc \in {"exec", "cleanup"}

C2_Witness ==
    /\ suite = "LessLeaky" /\ pc = "idle" /\ Len(results) = 2
    /\ results[1].code = 0 /\ results[1].elapsed = WorkDelay
    /\ results[2].code = 0 /\ results[2].elapsed = WorkDelay
    /\ \E f \in Fired : f.test = 2 /\ f.kind = "quit"

\* C3: in LeakyTests every run of test_one and of test_two returns 0 after
\* 3000ms, whatever ran before it.
C3_LeakyTaskTestsReturnZero ==
    suite = "Leaky" =>
        \A r \in Runs :
            r.name \in TaskTests => r.code = 0 /\ r.elapsed = WorkDelay

\* C4: a run lasts no longer than the timeout of its guard, and every run
\* that has started stops.
C4_RunStopsWithinTimeout ==
    /\ [](pc = "exec" => runElapsed <= RunGuard)
    /\ (pc = "exec") ~> (pc # "exec")

C4_Witness ==
    \E r \in Runs : r.ownFirst = "guard" /\ r.elapsed = GuardDelay /\ r.code = -1

\* C5: in test_controller_and_worker_better an exit code of 0 comes with
\* exactly 20 recorded calls of on_worker_result.
C5_ZeroMeansTwentyResults ==
    suite = "Worker" =>
        \A r \in Runs : r.code = 0 => r.observed = WorkerResults

C5_Witness ==
    /\ suite = "Worker"
    /\ \E r \in Runs : r.code = 0 /\ r.observed = WorkerResults /\ r.passed

\* C6: every run of test_fail_if_timeout returns -1, and returns it when
\* its 5000ms guard expires.
C6_FailIfTimeoutReturnsMinusOne ==
    \A r \in Runs :
        r.name = "test_fail_if_timeout" => r.code = -1 /\ r.elapsed = GuardDelay

\* C7: a run goes Idle -> Running -> Completed or TimedOut; exec_() returns
\* once per run, only after a stop was requested and with the loop stopped;
\* a returned exit code never changes; and the loop runs again only through
\* the exec_() call of the next test.
C7_RunLifecycle ==
    [][ /\ runState = "Idle" => runState' \in {"Idle", "Running"}
        /\ runState = "Running" =>
              runState' \in {"Running", "Completed", "TimedOut"}
        /\ runState \in {"Completed", "TimedOut"} =>
              runState' \in {runState, "Idle", "Running"}
        /\ (runState # "Running" /\ runState' = "Running") =>
              /\ ~loop.inExec /\ loop'.inExec /\ ~loop'.exitReq
              /\ testNo' = Len(results) + 1
        /\ (runState = "Running") = loop.inExec
        /\ Len(results') # Len(results) =>
              /\ results' = Append(results, results'[Len(results')])
              /\ results'[Len(results')].test = Len(results')
              /\ results'[Len(results')].code = loop.returnCode
              /\ loop.inExec /\ loop.exitReq /\ ~loop'.inExec
              /\ runState = "Running"
              /\ runState' \in {"Completed", "TimedOut"}
        /\ Len(results') >= Len(results)
        /\ \A i \in 1..Len(results) : results'[i] = results[i]
      ]_vars

C7_Witness ==
    /\ Len(results) = 2 /\ runState = "Running" /\ testNo = 3
    /\ results[1].code = 0 /\ results[2].code = -1

\* C8: no run is stopped by a stop callback of an earlier test, whose own
\* loop run has already returned.
C8_LateStopHasNoEffect ==
    \A r \in Runs : r.stopBy = r.test

\* C9: a timer callback is invoked at most once over the whole sequence of
\* tests, and not before its delay has elapsed since its registration.
C9_SingleShotAfterDelay ==
    /\ \A f \in Fired : f.age >= f.delay
    /\ \A i, j \in 1..Len(firedLog) :
          (firedLog[i].test = firedLog[j].test
           /\ firedLog[i].kind = firedLog[j].kind) => i = j

C9_Witness ==
    \E f \in Fired : f.run > f.test /\ f.delay > 0 /\ f.age >= f.delay

NoLoop == {noLoopLog[i] : i \in 1..Len(noLoopLog)}
Guards(ts) == {i \in 1..Len(ts) : ts[i].kind = "guard"}

\* C11: the QCoreApplication constructor is called at most once in the
\* process, in whatever order the tests run.
C11_SingleApplicationInstance == appCalls <= 1

\* C12: in every run of test_controller_and_worker_bad the worker is
\* running right after controller.start(), and on_worker_result has been
\* called 20 times once the test has waited for the worker.
C12_BadTestSeesTwentyResults ==
    \A e \in NoLoop :
        e.name = "test_controller_and_worker_bad" =>
            e.running /\ e.observed = WorkerResults

C14_GoodStopsAfterTwentyResults ==
    /\ [](\A r \in Runs :
            r.name = "test_controller_and_worker_good" =>
                r.observed = WorkerResults /\ r.code = 0)
    /\ (pc = "exec" /\ cur = "test_controller_and_worker_good")
          ~> (pc # "exec")

C14_Witness ==
    \E r \in Runs :
        /\ r.name = "test_controller_and_worker_good"
        /\ r.observed = WorkerResults /\ r.code = 0 /\ r.passed

\* C15: in LeakyTests and LessLeakyTests the guard of a run that ended
\* Completed never fires, and at most one guard is pending at any moment.
C15_CompletedGuardNeverFires ==
    suite \in {"Leaky", "LessLeaky"} =>
        /\ \A f \in Fired :
              (f.kind = "guard" /\ f.test <= Len(results)) =>
                  ~(results[f.test].code = 0
                    /\ results[f.test].ownFirst = "quit")
        /\ Cardinality(Guards(timers)) <= 1

\* C16: every run of test_controller_and_worker_better returns 0, stopped
\* by the quit of its own worker, and its timeout timer never fires.
C16_BetterAlwaysCompletes ==
    /\ \A r \in Runs :
          r.name = "test_controller_and_worker_better" =>
              r.code = 0 /\ r.ownFirst = "quit" /\ r.stopBy = r.test
    /\ suite = "Worker" => Fired = {}

C16_Witness ==
    \E r \in Runs :
        /\ r.name = "test_controller_and_worker_better"
        /\ r.code = 0 /\ r.observed = WorkerResults
        /\ r.elapsed = WorkerSleep * WorkerResults

====
